---- MODULE Spec2Model ----
(***************************************************************************)
(* Runtime value model of the tree-walking interpreter                     *)
(* (tree-walk-interpreter/src/value.rs): the Value tagged union, its       *)
(* truthiness, unary operators, coercions, rendering and derived equality. *)
(*                                                                         *)
(* Number representation.  TLC integers are 32 bits wide, so               *)
(*   - an i64 is kept as its two's-complement bit pattern in four 16-bit   *)
(*     limbs <<w3, w2, w1, w0>>, most significant first;                   *)
(*   - an f32 is kept as its IEEE-754 binary32 fields                      *)
(*     [sign, exp, frac] (1, 8 and 23 bits).                               *)
(* Text is a sequence of one-character strings.                            *)
(***************************************************************************)
EXTENDS Integers, Sequences, FiniteSets, TLC

(***************************************************************************)
(* Bounds of the model (not program constants).                            *)
(***************************************************************************)
\* array cells the evaluator allocates
MaxCells == 2
\* elements held by all array cells together, where arrays are rendered
MaxElems == 3
\* elements held by all array cells together, where arrays are compared
MaxCompared == 2

(***************************************************************************)
(* i64: 64-bit two's complement in four 16-bit limbs.                      *)
(***************************************************************************)
LimbBase == 65536
NumLimbs == 4
F32FracBits == 23
F32Bias == 127

Pow2(k) == 2 ^ k

I64Zero == <<0, 0, 0, 0>>
I64Min == <<32768, 0, 0, 0>>
I64Max == <<32767, 65535, 65535, 65535>>

\* bit i (0 = least significant) of the 64-bit pattern x
Bit(x, i) == (x[NumLimbs - (i \div 16)] \div Pow2(i % 16)) % 2

RECURSIVE LimbOfBits(_, _, _)
LimbOfBits(b, k, j) ==
    IF j = 16 THEN 0 ELSE b[16 * k + j] * Pow2(j) + LimbOfBits(b, k, j + 1)

\* the 64-bit pattern whose bit i is b[i], b \in [0..63 -> 0..1]
I64OfBits(b) ==
    <<LimbOfBits(b, 3, 0), LimbOfBits(b, 2, 0), LimbOfBits(b, 1, 0), LimbOfBits(b, 0, 0)>>

\* two's-complement negation modulo 2^64 (i64::wrapping_neg)
WrappingNeg(x) ==
    LET c0 == (LimbBase - 1 - x[4]) + 1
        c1 == (LimbBase - 1 - x[3]) + (c0 \div LimbBase)
        c2 == (LimbBase - 1 - x[2]) + (c1 \div LimbBase)
        c3 == (LimbBase - 1 - x[1]) + (c2 \div LimbBase)
    IN  <<c3 % LimbBase, c2 % LimbBase, c1 % LimbBase, c0 % LimbBase>>

IsNegativeI64(x) == x[1] >= 32768

\* |x| as an unsigned 64-bit pattern (2^63 for I64Min)
MagnitudeI64(x) == IF IsNegativeI64(x) THEN WrappingNeg(x) ELSE x

\* the i64 holding the small integer n, |n| < 2^31
I64(n) ==
    IF n >= 0 THEN <<0, 0, n \div LimbBase, n % LimbBase>>
    ELSE WrappingNeg(<<0, 0, (-n) \div LimbBase, (-n) % LimbBase>>)

\* index of the highest set bit of a non-zero pattern
RECURSIVE HighBitFrom(_, _)
HighBitFrom(x, i) == IF Bit(x, i) = 1 \/ i = 0 THEN i ELSE HighBitFrom(x, i - 1)
HighBit(x) == HighBitFrom(x, 63)

\* the bits lo..hi of x as a number (hi - lo < 31)
RECURSIVE BitField(_, _, _)
BitField(x, lo, hi) ==
    IF hi < lo THEN 0 ELSE Bit(x, lo) + 2 * BitField(x, lo + 1, hi)

\* some bit of x strictly below position i is set
AnyBitBelow(x, i) == \E j \in 0..63 : j < i /\ Bit(x, j) = 1

(***************************************************************************)
(* f32: IEEE-754 binary32 fields.                                          *)
(***************************************************************************)
F32(s, e, m) == [sign |-> s, exp |-> e, frac |-> m]

F32PosZero == F32(0, 0, 0)
F32NegZero == F32(1, 0, 0)
F32NaN == F32(0, 255, 4194304)
F32Inf == F32(0, 255, 0)

IsNaN(f) == f.exp = 255 /\ f.frac # 0
IsInfinite(f) == f.exp = 255 /\ f.frac = 0
IsZeroF32(f) == f.exp = 0 /\ f.frac = 0

\* IEEE comparison `a == b` on f32: NaN equals nothing, +0.0 equals -0.0
F32Eq(a, b) ==
    /\ ~IsNaN(a)
    /\ ~IsNaN(b)
    /\ \/ a = b
       \/ IsZeroF32(a) /\ IsZeroF32(b)

\* unary minus on f32: flips the sign bit
F32Neg(f) == F32(1 - f.sign, f.exp, f.frac)

\* 24-bit significand of a normal f32 as a 64-bit pattern
Significand(f) == <<0, 0, (Pow2(F32FracBits) + f.frac) \div LimbBase,
                    (Pow2(F32FracBits) + f.frac) % LimbBase>>

\* `value as i64` for f32: truncation toward zero, saturating, NaN -> 0
F32AsI64(f) ==
    LET e == f.exp - F32Bias
        sh == e - F32FracBits
        sig == Significand(f)
        mag == I64OfBits([i \in 0..63 |->
                   IF i - sh >= 0 /\ i - sh <= F32FracBits THEN Bit(sig, i - sh) ELSE 0])
    IN  IF IsNaN(f) THEN I64Zero
        ELSE IF e >= 63 THEN (IF f.sign = 1 THEN I64Min ELSE I64Max)
        ELSE IF e < 0 THEN I64Zero
        ELSE IF f.sign = 1 THEN WrappingNeg(mag) ELSE mag

\* the cast going through u64: the pattern is read as unsigned
I64AsF32_unsigned(x) ==
    LET p == HighBit(x)
        top == BitField(x, p - F32FracBits, p)
        guard == Bit(x, p - F32FracBits - 1)
        sticky == AnyBitBelow(x, p - F32FracBits - 1)
        up == guard = 1 /\ (sticky \/ top % 2 = 1)
        rounded == IF up THEN top + 1 ELSE top
    IN  IF x = I64Zero THEN F32PosZero
        ELSE IF p <= F32FracBits
             THEN F32(0, F32Bias + p,
                      BitField(x, 0, p) * Pow2(F32FracBits - p) - Pow2(F32FracBits))
        ELSE IF rounded = Pow2(F32FracBits + 1)
             THEN F32(0, F32Bias + p + 1, 0)
        ELSE F32(0, F32Bias + p, rounded - Pow2(F32FracBits))

\* `value as f32` for i64: round to nearest, ties to even
I64AsF32(x) ==
    LET mag == MagnitudeI64(x)
        s == IF IsNegativeI64(x) THEN 1 ELSE 0
        p == HighBit(mag)
        top == BitField(mag, p - F32FracBits, p)
        guard == Bit(mag, p - F32FracBits - 1)
        sticky == AnyBitBelow(mag, p - F32FracBits - 1)
        up == guard = 1 /\ (sticky \/ top % 2 = 1)
        rounded == IF up THEN top + 1 ELSE top
    IN  IF x = I64Zero THEN F32PosZero
        ELSE IF p <= F32FracBits
             THEN F32(s, F32Bias + p,
                      BitField(mag, 0, p) * Pow2(F32FracBits - p) - Pow2(F32FracBits))
        ELSE IF rounded = Pow2(F32FracBits + 1)
             THEN F32(s, F32Bias + p + 1, 0)
        ELSE F32(s, F32Bias + p, rounded - Pow2(F32FracBits))

(***************************************************************************)
(* Text: sequences of one-character strings.                               *)
(***************************************************************************)
DigitChar(d) == <<"0", "1", "2", "3", "4", "5", "6", "7", "8", "9">>[d + 1]

\* quotient and remainder of an unsigned 64-bit pattern divided by ten
DivMod10(x) ==
    LET a1 == x[1]
        a2 == (a1 % 10) * LimbBase + x[2]
        a3 == (a2 % 10) * LimbBase + x[3]
        a4 == (a3 % 10) * LimbBase + x[4]
    IN  [quot |-> <<a1 \div 10, a2 \div 10, a3 \div 10, a4 \div 10>>, rem |-> a4 % 10]

\* decimal digits of an unsigned 64-bit pattern
RECURSIVE UnsignedToString(_)
UnsignedToString(x) ==
    LET qr == DivMod10(x)
    IN  IF qr.quot = I64Zero THEN <<DigitChar(qr.rem)>>
        ELSE UnsignedToString(qr.quot) \o <<DigitChar(qr.rem)>>

\* i64::to_string
I64ToString(x) ==
    IF IsNegativeI64(x) THEN <<"-">> \o UnsignedToString(MagnitudeI64(x))
    ELSE UnsignedToString(x)

\* f32 holds an integer of magnitude below 2^24
IsSmallIntegralF32(f) ==
    /\ f.exp \in F32Bias..(F32Bias + F32FracBits)
    /\ f.frac % Pow2(F32FracBits - (f.exp - F32Bias)) = 0

\* f32 holds k + 1/2 for an integer 0 <= k < 2^22
IsSmallHalfF32(f) ==
    \/ f.exp = F32Bias - 1 /\ f.frac = 0
    \/ /\ f.exp \in F32Bias..(F32Bias + F32FracBits - 2)
       /\ f.frac % Pow2(F32FracBits - (f.exp - F32Bias) - 1) = 0
       /\ f.frac % Pow2(F32FracBits - (f.exp - F32Bias)) # 0

\* integer part of |f| for 2^-1 <= |f| < 2^24
F32Floor(f) ==
    IF f.exp < F32Bias THEN 0
    ELSE (Pow2(F32FracBits) + f.frac) \div Pow2(F32FracBits - (f.exp - F32Bias))

\* f32::to_string: the shortest decimal text that reads back as f, without
\* exponent.  Computed for NaN, infinities, zeros, integers below 2^24 and
\* half-integers; the two remaining floats of FloatSamples are tabulated.
F32ToString(f) ==
    LET sgn == IF f.sign = 1 THEN <<"-">> ELSE <<>>
    IN  IF IsNaN(f) THEN <<"N", "a", "N">>
        ELSE IF IsInfinite(f) THEN sgn \o <<"i", "n", "f">>
        ELSE IF IsZeroF32(f) THEN sgn \o <<"0">>
        ELSE IF IsSmallIntegralF32(f) THEN sgn \o UnsignedToString(I64(F32Floor(f)))
        ELSE IF IsSmallHalfF32(f)
             THEN sgn \o UnsignedToString(I64(F32Floor(f))) \o <<".", "5">>
        ELSE IF f.exp = 128 /\ f.frac = 7969178 THEN sgn \o <<"3", ".", "9">>
        ELSE sgn \o <<"9", "2", "2", "3", "3", "7", "2", "0", "0", "0",
                      "0", "0", "0", "0", "0", "0", "0", "0", "0">>

(***************************************************************************)
(* Value: the closed tagged union.  Function, Method, Class, Object and    *)
(* Trait wrap descriptors built elsewhere; a descriptor is kept as the     *)
(* name it is displayed by.  An Array holds the index of its shared cell   *)
(* in the heap.                                                            *)
(***************************************************************************)
Nil == [tag |-> "Nil"]
Uninitialized == [tag |-> "Uninitialized"]
Boolean(b) == [tag |-> "Boolean", boolean |-> b]
Integer(n) == [tag |-> "Integer", integer |-> n]
Float(f) == [tag |-> "Float", float |-> f]
String(s) == [tag |-> "String", string |-> s]
Function(lf) == [tag |-> "Function", lf |-> lf]
Method(lf, o) == [tag |-> "Method", lf |-> lf, object |-> o]
Class(c) == [tag |-> "Class", class |-> c]
Object(o) == [tag |-> "Object", object |-> o]
Trait(t) == [tag |-> "Trait", trait |-> t]
Array(r) == [tag |-> "Array", cell |-> r]
Module(m) == [tag |-> "Module", name |-> m]

\* a shared array cell
LoxArray(c, es) == [capacity |-> c, elements |-> es]

\* the members of the error taxonomy
ValueError == {"ExpectingDouble", "ExpectingInteger", "ExpectingNumber", "ExpectingString"}

\* outcomes of an operation
Returned(v) == [kind |-> "Value", value |-> v]
Ok(v) == [kind |-> "Ok", value |-> v]
Err(e) == [kind |-> "Err", error |-> e]
Panic(m) == [kind |-> "Panic", message |-> m]
StackOverflow == [kind |-> "StackOverflow"]
NoOutcome == [kind |-> "None"]

\* the outcome ends the host process
Aborts(o) == o.kind \in {"Panic", "StackOverflow"}

(***************************************************************************)
(* Predicates and unary operators.                                         *)
(***************************************************************************)
is_number(v) == v.tag \in {"Integer", "Float"}

\* is_truthy without the arm for Uninitialized
is_truthy_without_uninitialized(v) ==
    CASE v.tag = "Nil" -> FALSE
      [] v.tag = "Boolean" /\ v.boolean = FALSE -> FALSE
      [] v.tag = "Float" /\ F32Eq(v.float, F32PosZero) -> FALSE
      [] v.tag = "Integer" /\ v.integer = I64Zero -> FALSE
      [] OTHER -> TRUE

is_truthy(v) ==
    CASE v.tag = "Nil" -> FALSE
      [] v.tag = "Uninitialized" -> FALSE
      [] v.tag = "Boolean" /\ v.boolean = FALSE -> FALSE
      [] v.tag = "Float" /\ F32Eq(v.float, F32PosZero) -> FALSE
      [] v.tag = "Integer" /\ v.integer = I64Zero -> FALSE
      [] OTHER -> TRUE

\* `-value` on i64: overflow panics when the build checks overflow and wraps
\* otherwise
NegI64(n, checks) ==
    IF n = I64Min
    THEN (IF checks THEN Panic("attempt to negate with overflow")
          ELSE Returned(Integer(WrappingNeg(n))))
    ELSE Returned(Integer(WrappingNeg(n)))

neg(v, checks) ==
    CASE v.tag = "Integer" -> NegI64(v.integer, checks)
      [] v.tag = "Float" -> Returned(Float(F32Neg(v.float)))
      [] OTHER -> Panic("Only numbers can change sign")

\* not whose general arm forgets to negate the truthiness
not_without_negation(v) ==
    CASE v.tag = "Boolean" -> Returned(Boolean(~v.boolean))
      [] OTHER -> Returned(Boolean(is_truthy(v)))

not(v) ==
    CASE v.tag = "Boolean" -> Returned(Boolean(~v.boolean))
      [] OTHER -> Returned(Boolean(~is_truthy(v)))

(***************************************************************************)
(* Coercions.                                                              *)
(***************************************************************************)
try_from_i64(v) ==
    CASE v.tag = "Integer" -> Ok(v.integer)
      [] v.tag = "Float" -> Ok(F32AsI64(v.float))
      [] OTHER -> Err("ExpectingDouble")

\* the float coercion reporting the error kind of the number check
try_from_f32_expecting_number(v) ==
    CASE v.tag = "Float" -> Ok(v.float)
      [] v.tag = "Integer" -> Ok(I64AsF32(v.integer))
      [] OTHER -> Err("ExpectingNumber")

try_from_f32(v) ==
    CASE v.tag = "Float" -> Ok(v.float)
      [] v.tag = "Integer" -> Ok(I64AsF32(v.integer))
      [] OTHER -> Err("ExpectingDouble")

try_into_String(v) ==
    CASE v.tag = "String" -> Ok(v.string)
      [] OTHER -> Err("ExpectingString")

to_string(e) ==
    CASE e = "ExpectingDouble" -> "Type error! Expecting a double!"
      [] e = "ExpectingInteger" -> "Type error! Expecting an integer!"
      [] e = "ExpectingNumber" -> "Type error! Expecting a number!"
      [] e = "ExpectingString" -> "Type error! Expecting a string!"

\* literals handed over by the parser
LiteralFloat(f) == [kind |-> "Float", float |-> f]
LiteralInteger(n) == [kind |-> "Integer", integer |-> n]
LiteralQuotedString(s) == [kind |-> "QuotedString", string |-> s]
LiteralKeyword(k) == [kind |-> "Keyword", keyword |-> k]

into(l) ==
    CASE l.kind = "Float" -> Float(l.float)
      [] l.kind = "Integer" -> Integer(l.integer)
      [] l.kind = "QuotedString" -> String(l.string)
      [] l.kind = "Keyword" /\ l.keyword = "Nil" -> Nil
      [] l.kind = "Keyword" /\ l.keyword = "True" -> Boolean(TRUE)
      [] l.kind = "Keyword" /\ l.keyword = "False" -> Boolean(FALSE)

(***************************************************************************)
(* Rendering.  fmt recurses into the elements of an array; the recursion   *)
(* never returns exactly when it comes back to a cell it is still          *)
(* rendering (path), and the host then runs out of stack.                  *)
(***************************************************************************)
\* the {:?} form of a function descriptor
DebugFmt(lf) == <<"<", "f", "n", " ">> \o lf \o <<">">>

RECURSIVE fmt(_, _, _)
RECURSIVE fmt_elements(_, _, _, _)

\* fmt_elements writing ", " between the elements only
RECURSIVE fmt_elements_separated(_, _, _, _)
fmt_elements_separated(es, k, h, path) ==
    IF k > Len(es) THEN Ok(<<>>)
    ELSE LET first == fmt(es[k], h, path)
         IN  IF first.kind # "Ok" THEN first
             ELSE IF k = Len(es) THEN first
             ELSE LET rest == fmt_elements_separated(es, k + 1, h, path)
                  IN  IF rest.kind # "Ok" THEN rest
                      ELSE Ok(first.value \o <<",", " ">> \o rest.value)

\* the text written for the elements es[k..], each followed by ", "
fmt_elements(es, k, h, path) ==
    IF k > Len(es) THEN Ok(<<>>)
    ELSE LET first == fmt(es[k], h, path)
         IN  IF first.kind # "Ok" THEN first
             ELSE LET rest == fmt_elements(es, k + 1, h, path)
                  IN  IF rest.kind # "Ok" THEN rest
                      ELSE Ok(first.value \o <<",", " ">> \o rest.value)

fmt(v, h, path) ==
    CASE v.tag = "Float" -> Ok(F32ToString(v.float))
      [] v.tag = "Integer" -> Ok(I64ToString(v.integer))
      [] v.tag = "String" -> Ok(v.string)
      [] v.tag = "Boolean" ->
            Ok(IF v.boolean THEN <<"t", "r", "u", "e">> ELSE <<"f", "a", "l", "s", "e">>)
      [] v.tag = "Uninitialized" ->
            Ok(<<"U", "n", "i", "n", "i", "t", "i", "a", "l", "i", "z", "e", "d">>)
      [] v.tag = "Nil" -> Ok(<<"N", "i", "l">>)
      [] v.tag = "Function" -> Ok(DebugFmt(v.lf))
      [] v.tag = "Class" -> Ok(v.class)
      [] v.tag = "Object" ->
            Ok(v.object \o <<" ", "i", "n", "s", "t", "a", "n", "c", "e">>)
      [] v.tag = "Method" ->
            Ok(<<"M", "e", "t", "h", "o", "d", " ">> \o DebugFmt(v.lf)
               \o <<" ", "o", "f", " ">> \o v.object)
      [] v.tag = "Trait" -> Ok(v.trait)
      [] v.tag = "Array" ->
            IF v.cell \in path THEN StackOverflow
            ELSE LET inner == fmt_elements(h[v.cell].elements, 1, h, path \cup {v.cell})
                 IN  IF inner.kind # "Ok" THEN inner
                     ELSE Ok(<<"[", " ">> \o inner.value \o <<"]">>)
      [] v.tag = "Module" -> Ok(<<"[", "M", "o", "d", "u", "l", "e", "]">>)

(***************************************************************************)
(* Derived equality (PartialEq).  Arrays are compared through their cells: *)
(* capacity, then length, then the elements in order up to the first       *)
(* difference.  The comparison never returns exactly when it comes back to *)
(* a pair of cells it is still comparing (path).                           *)
(***************************************************************************)
RECURSIVE eq(_, _, _, _)
RECURSIVE eq_elements(_, _, _, _, _)

eq_elements(xs, ys, k, h, path) ==
    IF k > Len(xs) THEN Ok(TRUE)
    ELSE LET first == eq(xs[k], ys[k], h, path)
         IN  IF first.kind # "Ok" THEN first
             ELSE IF ~first.value THEN Ok(FALSE)
             ELSE eq_elements(xs, ys, k + 1, h, path)

\* eq taking two handles to one cell for equal without looking inside
eq_by_identity(a, b, h, path) ==
    IF a.tag # b.tag THEN Ok(FALSE)
    ELSE CASE a.tag = "Float" -> Ok(F32Eq(a.float, b.float))
           [] a.tag = "Array" ->
                 IF a.cell = b.cell THEN Ok(TRUE)
                 ELSE IF <<a.cell, b.cell>> \in path THEN StackOverflow
                 ELSE IF h[a.cell].capacity # h[b.cell].capacity THEN Ok(FALSE)
                 ELSE IF Len(h[a.cell].elements) # Len(h[b.cell].elements) THEN Ok(FALSE)
                 ELSE eq_elements(h[a.cell].elements, h[b.cell].elements, 1, h,
                                  path \cup {<<a.cell, b.cell>>})
           [] OTHER -> Ok(a = b)

eq(a, b, h, path) ==
    IF a.tag # b.tag THEN Ok(FALSE)
    ELSE CASE a.tag = "Float" -> Ok(F32Eq(a.float, b.float))
           [] a.tag = "Array" ->
                 IF <<a.cell, b.cell>> \in path THEN StackOverflow
                 ELSE IF h[a.cell].capacity # h[b.cell].capacity THEN Ok(FALSE)
                 ELSE IF Len(h[a.cell].elements) # Len(h[b.cell].elements) THEN Ok(FALSE)
                 ELSE eq_elements(h[a.cell].elements, h[b.cell].elements, 1, h,
                                  path \cup {<<a.cell, b.cell>>})
           [] OTHER -> Ok(a = b)

(***************************************************************************)
(* Inputs.                                                                 *)
(***************************************************************************)
IntSamples ==
    {I64(0), I64(1), I64(-1), I64(5), I64(16777216), I64(16777217), I64Max, I64Min}

\* 0.0, -0.0, 2.5, 3.9, -3.9, NaN, +inf, 2^63
FloatSamples ==
    {F32PosZero, F32NegZero, F32(0, 128, 2097152), F32(0, 128, 7969178),
     F32(1, 128, 7969178), F32NaN, F32Inf, F32(0, 190, 0)}

StringSamples == {<<>>, <<"a">>, <<"x">>}

Names == {<<"A">>, <<"B">>}

\* what the parser can hand over: number literals carry no sign
Literals ==
    {LiteralFloat(f) : f \in {g \in FloatSamples : g.sign = 0 /\ g.exp < 255}}
    \cup {LiteralInteger(n) : n \in {m \in IntSamples : ~IsNegativeI64(m)}}
    \cup {LiteralQuotedString(s) : s \in StringSamples}
    \cup {LiteralKeyword(k) : k \in {"Nil", "True", "False"}}

\* what expressions and the builders of descriptors produce
Produced ==
    {Uninitialized}
    \cup {Integer(n) : n \in IntSamples}
    \cup {Float(f) : f \in FloatSamples}
    \cup {Function(n) : n \in Names}
    \cup {Method(n, o) : n \in {<<"A">>}, o \in Names}
    \cup {Class(n) : n \in Names}
    \cup {Object(n) : n \in Names}
    \cup {Trait(n) : n \in Names}
    \cup {Module(n) : n \in Names}

\* the values stored into the arrays that are rendered
RenderedSamples == {Integer(I64(1)), String(<<"a">>), Boolean(TRUE)}

\* the values stored into the arrays that are compared
ComparedElements == {Integer(I64(1)), Float(F32NaN)}

\* the values arrays and their elements are compared against besides arrays:
\* 1.0 and Uninitialized
ComparedSamples == {Float(F32(0, 127, 0)), Uninitialized}

Capacities == {MaxElems - 1, MaxElems}

(***************************************************************************)
(* State.                                                                  *)
(***************************************************************************)
VARIABLES
    heap,             \* the shared array cells, in order of allocation
    acc,              \* the value the evaluator holds
    last,             \* the last operation: its operands and its outcome
    host,             \* "running", or "aborted" once an operation has
                      \* brought the process down
    overflow_checks   \* the build traps integer overflow

vars == <<heap, acc, last, host, overflow_checks>>

Op(name, arg, other, out) == [op |-> name, arg |-> arg, other |-> other, out |-> out]

Cells == 1..Len(heap)

RECURSIVE SumLens(_, _)
SumLens(h, k) == IF k > Len(h) THEN 0 ELSE Len(h[k].elements) + SumLens(h, k + 1)

Init ==
    /\ heap = <<>>
    /\ acc = Nil
    /\ last = Op("none", Nil, Nil, NoOutcome)
    /\ host = "running"
    /\ overflow_checks \in BOOLEAN

\* the bookkeeping common to the operations: record the outcome, and stop the
\* host when the operation panics or overflows the stack
Finish(name, other, out) ==
    /\ last' = Op(name, acc, other, out)
    /\ host' = IF Aborts(out) THEN "aborted" ELSE host
    /\ UNCHANGED <<heap, overflow_checks>>

FromLiteral(l) ==
    /\ host = "running"
    /\ acc' = into(l)
    /\ last' = Op("into", Nil, Nil, Returned(into(l)))
    /\ UNCHANGED <<heap, host, overflow_checks>>

Produce(v) ==
    /\ host = "running"
    /\ acc' = v
    /\ last' = Op("none", Nil, Nil, NoOutcome)
    /\ UNCHANGED <<heap, host, overflow_checks>>

Neg ==
    /\ host = "running"
    /\ LET out == neg(acc, overflow_checks)
       IN  /\ Finish("neg", Nil, out)
           /\ acc' = IF out.kind = "Value" THEN out.value ELSE acc

Not ==
    /\ host = "running"
    /\ LET out == not(acc)
       IN  /\ Finish("not", Nil, out)
           /\ acc' = out.value

IsTruthy ==
    /\ host = "running"
    /\ Finish("is_truthy", Nil, Ok(is_truthy(acc)))
    /\ UNCHANGED acc

TryFromI64 ==
    /\ host = "running"
    /\ Finish("i64::try_from", Nil, try_from_i64(acc))
    /\ UNCHANGED acc

TryFromF32 ==
    /\ host = "running"
    /\ Finish("f32::try_from", Nil, try_from_f32(acc))
    /\ UNCHANGED acc

TryIntoString ==
    /\ host = "running"
    /\ Finish("try_into", Nil, try_into_String(acc))
    /\ UNCHANGED acc

Display ==
    /\ host = "running"
    /\ Finish("fmt", Nil, fmt(acc, heap, {}))
    /\ UNCHANGED acc

Eq(b) ==
    /\ host = "running"
    /\ Finish("eq", b, eq(acc, b, heap, {}))
    /\ UNCHANGED acc

\* the owner of arrays allocates a cell of the declared capacity
NewArray(c) ==
    /\ host = "running"
    /\ Len(heap) < MaxCells
    /\ heap' = Append(heap, LoxArray(c, <<>>))
    /\ acc' = Array(Len(heap) + 1)
    /\ last' = Op("none", Nil, Nil, NoOutcome)
    /\ UNCHANGED <<host, overflow_checks>>

\* a second handle to a cell: Value::clone of an Array shares the cell
CloneArray(r) ==
    /\ host = "running"
    /\ r \in Cells
    /\ acc' = Array(r)
    /\ last' = Op("none", Nil, Nil, NoOutcome)
    /\ UNCHANGED <<heap, host, overflow_checks>>

\* the owner stores a clone of the held value through a handle to cell r,
\* within the declared capacity; max bounds the elements of the whole heap
ArrayPush(r, max) ==
    /\ host = "running"
    /\ r \in Cells
    /\ Len(heap[r].elements) < heap[r].capacity
    /\ SumLens(heap, 1) < max
    /\ heap' = [heap EXCEPT ![r].elements = Append(@, acc)]
    /\ last' = Op("none", Nil, Nil, NoOutcome)
    /\ UNCHANGED <<acc, host, overflow_checks>>

\* scalars, descriptors and empty arrays under every operation
Next ==
    \/ \E l \in Literals : FromLiteral(l)
    \/ \E v \in Produced : Produce(v)
    \/ \E c \in Capacities : NewArray(c)
    \/ \E r \in 1..MaxCells : CloneArray(r)
    \/ Neg
    \/ Not
    \/ IsTruthy
    \/ TryFromI64
    \/ TryFromF32
    \/ TryIntoString
    \/ Display
    \/ \E b \in Produced \cup {into(l) : l \in Literals} \cup {Array(r) : r \in Cells} : Eq(b)

Spec == Init /\ [][Next]_vars

\* arrays with contents, nested and shared, under rendering
NextRender ==
    \/ \E v \in RenderedSamples : Produce(v)
    \/ NewArray(MaxElems)
    \/ \E r \in 1..MaxCells : CloneArray(r)
    \/ \E r \in 1..MaxCells : ArrayPush(r, MaxElems)
    \/ Display

SpecRender == Init /\ [][NextRender]_vars

\* arrays with contents, nested and shared, under equality
NextEq ==
    \/ \E v \in ComparedElements : Produce(v)
    \/ \E c \in Capacities : NewArray(c)
    \/ \E r \in 1..MaxCells : CloneArray(r)
    \/ \E r \in 1..MaxCells : ArrayPush(r, MaxCompared)
    \/ \E b \in ComparedSamples \cup {Array(r) : r \in Cells} : Eq(b)

SpecEq == Init /\ [][NextEq]_vars

(***************************************************************************)
(* Properties.                                                             *)
(***************************************************************************)

\* C1: negation of a value that is neither Integer nor Float returns the
\* recoverable error ExpectingNumber and leaves the host running.
C1_NegNonNumberIsRecoverable ==
    (last.op = "neg" /\ ~is_number(last.arg)) =>
        /\ last.out.kind = "Err"
        /\ last.out.error = "ExpectingNumber"
        /\ host = "running"

\* x is the integer part of the finite float f, |f| < 2^63
IsTruncationOf(x, f) ==
    LET sh == f.exp - F32Bias - F32FracBits
        mag == MagnitudeI64(x)
    IN  /\ x # I64Zero => IsNegativeI64(x) = (f.sign = 1)
        /\ \A i \in 0..63 :
              Bit(mag, i) = (IF f.exp > 0 /\ i - sh >= 0 /\ i - sh <= F32FracBits
                             THEN Bit(Significand(f), i - sh) ELSE 0)

\* C2: coercion to i64 returns n for Integer(n), the float truncated toward
\* zero for Float(f), and the error ExpectingInteger for every other variant.
C2_I64CoercionErrorKind ==
    last.op = "i64::try_from" =>
        /\ last.arg.tag = "Integer" =>
              last.out.kind = "Ok" /\ last.out.value = last.arg.integer
        /\ (last.arg.tag = "Float" /\ last.arg.float.exp < F32Bias + 63) =>
              last.out.kind = "Ok" /\ IsTruncationOf(last.out.value, last.arg.float)
        /\ ~is_number(last.arg) =>
              last.out.kind = "Err" /\ last.out.error = "ExpectingInteger"

\* C3: coercion to f32 succeeds exactly for Float and Integer and otherwise
\* returns ExpectingDouble; coercion to text succeeds exactly for String, with
\* the string's content, and otherwise returns ExpectingString; neither
\* brings the host down.
C3_F32AndStringCoercion ==
    /\ last.op = "f32::try_from" =>
          /\ host = "running"
          /\ last.out.kind \in {"Ok", "Err"}
          /\ last.out.kind = "Ok" <=> last.arg.tag \in {"Float", "Integer"}
          /\ last.out.kind = "Err" => last.out.error = "ExpectingDouble"
    /\ last.op = "try_into" =>
          /\ host = "running"
          /\ last.out.kind \in {"Ok", "Err"}
          /\ last.out.kind = "Ok" <=> last.arg.tag = "String"
          /\ last.out.kind = "Ok" => last.out.value = last.arg.string
          /\ last.out.kind = "Err" => last.out.error = "ExpectingString"

\* C3 witness: the float coercion has refused a String
C3_Witness ==
    /\ last.op = "f32::try_from"
    /\ last.arg.tag = "String"
    /\ last.out.kind = "Err"

\* the real number denoted by f is the integer denoted by x
F32DenotesI64(f, x) ==
    LET mag == MagnitudeI64(x)
        sh == f.exp - F32Bias - F32FracBits
        sig == Significand(f)
    IN  IF x = I64Zero THEN IsZeroF32(f)
        ELSE /\ f.exp \in 1..254
             /\ f.sign = (IF IsNegativeI64(x) THEN 1 ELSE 0)
             /\ f.exp - F32Bias <= 63
             /\ \A i \in 0..63 :
                   Bit(mag, i) = (IF i - sh >= 0 /\ i - sh <= F32FracBits
                                  THEN Bit(sig, i - sh) ELSE 0)
             /\ \A j \in 0..F32FracBits : j + sh < 0 => Bit(sig, j) = 0

\* n is written with at most 24 significant bits, so an f32 can hold it
FitsSignificand(n) ==
    \/ n = I64Zero
    \/ \A i \in 0..63 :
          (i < HighBit(MagnitudeI64(n)) - F32FracBits) => Bit(MagnitudeI64(n), i) = 0

\* C4 as claimed: for every Integer(n) the integer coercion returns n and the
\* float coercion returns a float whose value is exactly n.
C4_WideningIsExact ==
    /\ (last.op = "i64::try_from" /\ last.arg.tag = "Integer") =>
          last.out.kind = "Ok" /\ last.out.value = last.arg.integer
    /\ (last.op = "f32::try_from" /\ last.arg.tag = "Integer") =>
          last.out.kind = "Ok" /\ F32DenotesI64(last.out.value, last.arg.integer)

\* C4 amended: the integer coercion returns n unchanged; the float coercion
\* always succeeds and its value is exactly n if and only if n has at most 24
\* significant bits (every |n| <= 2^24 has); any other n is rounded.
C4_WideningExactIffFits ==
    /\ (last.op = "i64::try_from" /\ last.arg.tag = "Integer") =>
          last.out.kind = "Ok" /\ last.out.value = last.arg.integer
    /\ (last.op = "f32::try_from" /\ last.arg.tag = "Integer") =>
          /\ last.out.kind = "Ok"
          /\ F32DenotesI64(last.out.value, last.arg.integer)
                <=> FitsSignificand(last.arg.integer)

\* C4 witness: -1 has been widened, exactly
C4_Witness ==
    /\ last.op = "f32::try_from"
    /\ last.arg.tag = "Integer"
    /\ last.arg.integer = I64(-1)
    /\ last.out.kind = "Ok"
    /\ F32DenotesI64(last.out.value, I64(-1))

\* the five falsy values (0.0 of either sign is the float zero)
InFalsySet(v) ==
    \/ v.tag = "Nil"
    \/ v.tag = "Uninitialized"
    \/ v.tag = "Boolean" /\ ~v.boolean
    \/ v.tag = "Float" /\ IsZeroF32(v.float)
    \/ v.tag = "Integer" /\ v.integer = I64Zero

\* C5: is_truthy returns false exactly for Nil, Uninitialized, Boolean(false),
\* Float(0.0) and Integer(0), true for every other value, and changes nothing.
C5_FalsySet ==
    last.op = "is_truthy" =>
        /\ last.out.kind = "Ok"
        /\ last.out.value = ~InFalsySet(last.arg)
        /\ acc = last.arg
        /\ host = "running"

\* C5 witness: the empty string has been found truthy
C5_Witness ==
    /\ last.op = "is_truthy"
    /\ last.arg.tag = "String"
    /\ last.arg.string = <<>>
    /\ last.out.value = TRUE

\* C6: logical not always returns Boolean(~is_truthy(x)); on Boolean(b) that
\* is Boolean(~b); applied twice it gives Boolean(is_truthy(x)).
C6_NotIsTruthiness ==
    last.op = "not" =>
        /\ host = "running"
        /\ last.out.kind = "Value"
        /\ last.out.value.tag = "Boolean"
        /\ last.out.value.boolean = ~is_truthy(last.arg)
        /\ last.arg.tag = "Boolean" => last.out.value.boolean = ~last.arg.boolean
        /\ not(last.out.value).kind = "Value"
        /\ not(last.out.value).value.tag = "Boolean"
        /\ not(last.out.value).value.boolean = is_truthy(last.arg)

\* C6 witness: Integer(0) has been turned into Boolean(true)
C6_Witness ==
    /\ last.op = "not"
    /\ last.arg.tag = "Integer"
    /\ last.arg.integer = I64Zero
    /\ last.out.value.tag = "Boolean"
    /\ last.out.value.boolean = TRUE

\* m + n = 0 over the integers: the patterns cancel modulo 2^64 and are not
\* both negative
AddsToZero(m, n) ==
    LET s4 == m[4] + n[4]
        s3 == m[3] + n[3] + (s4 \div LimbBase)
        s2 == m[2] + n[2] + (s3 \div LimbBase)
        s1 == m[1] + n[1] + (s2 \div LimbBase)
    IN  /\ s4 % LimbBase = 0
        /\ s3 % LimbBase = 0
        /\ s2 % LimbBase = 0
        /\ s1 % LimbBase = 0
        /\ ~(IsNegativeI64(m) /\ IsNegativeI64(n))

\* C7: negation of a number keeps the variant, gives Integer(-n) for
\* Integer(n), gives the operand back when applied twice, and never overflows
\* or aborts, for every i64 n and every f32 f.
C7_NegationInvolution ==
    (last.op = "neg" /\ is_number(last.arg)) =>
        /\ host = "running"
        /\ last.out.kind = "Value"
        /\ last.out.value.tag = last.arg.tag
        /\ last.arg.tag = "Integer" =>
              AddsToZero(last.out.value.integer, last.arg.integer)
        /\ neg(last.out.value, overflow_checks).kind = "Value"
        /\ neg(last.out.value, overflow_checks).value = last.arg

\* C8: rendering returns a text for every value and leaves the host running,
\* also for an array that contains itself.
C8_RenderingTerminates ==
    last.op = "fmt" => (last.out.kind = "Ok" /\ host = "running")

\* the renderings of es[k..], joined by ", "
RECURSIVE JoinedText(_, _, _)
JoinedText(es, k, h) ==
    IF k > Len(es) THEN <<>>
    ELSE IF k = Len(es) THEN fmt(es[k], h, {}).value
    ELSE fmt(es[k], h, {}).value \o <<",", " ">> \o JoinedText(es, k + 1, h)

\* the renderings of es[k..], each followed by ", "
RECURSIVE TerminatedText(_, _, _)
TerminatedText(es, k, h) ==
    IF k > Len(es) THEN <<>>
    ELSE fmt(es[k], h, {}).value \o <<",", " ">> \o TerminatedText(es, k + 1, h)

RenderedArray == last.op = "fmt" /\ last.arg.tag = "Array" /\ last.out.kind = "Ok"

\* C9 as claimed: an array renders as its elements' own renderings in order,
\* separated by ", ", with nothing else between the brackets; the empty
\* array renders as just the brackets.
C9_ArrayTextIsJoined ==
    RenderedArray =>
        last.out.value =
            <<"[">> \o JoinedText(heap[last.arg.cell].elements, 1, heap) \o <<"]">>

\* C9 amended: what rendering an array returns is "[ ", then each element's
\* own rendering followed by ", " in index order (also after the last one),
\* then "]"; [Integer(1), String("a"), Boolean(true)] gives "[ 1, a, true, ]"
\* and the empty array gives "[ ]".
C9_ArrayTextIsTerminated ==
    RenderedArray =>
        /\ last.out.value =
              <<"[", " ">> \o TerminatedText(heap[last.arg.cell].elements, 1, heap)
                           \o <<"]">>
        /\ heap[last.arg.cell].elements = <<>> => last.out.value = <<"[", " ", "]">>
        /\ heap[last.arg.cell].elements
              = <<Integer(I64(1)), String(<<"a">>), Boolean(TRUE)>> =>
                 last.out.value = <<"[", " ", "1", ",", " ", "a", ",", " ",
                                    "t", "r", "u", "e", ",", " ", "]">>

\* C9 witness: the array [1, "a", true] has been rendered
C9_Witness ==
    /\ RenderedArray
    /\ heap[last.arg.cell].elements = <<Integer(I64(1)), String(<<"a">>), Boolean(TRUE)>>

\* v is, or holds at some depth, a Float NaN
RECURSIVE ReachesNaN(_, _, _)
ReachesNaN(v, h, seen) ==
    \/ v.tag = "Float" /\ IsNaN(v.float)
    \/ /\ v.tag = "Array"
       /\ v.cell \notin seen
       /\ \E k \in 1..Len(h[v.cell].elements) :
             ReachesNaN(h[v.cell].elements[k], h, seen \cup {v.cell})

\* v holds, at some depth, an array that contains itself
RECURSIVE ReachesCycle(_, _, _)
ReachesCycle(v, h, path) ==
    /\ v.tag = "Array"
    /\ \/ v.cell \in path
       \/ \E k \in 1..Len(h[v.cell].elements) :
             ReachesCycle(h[v.cell].elements[k], h, path \cup {v.cell})

\* capacities agree and the elements are pairwise equal
SameContents(a, b, h) ==
    /\ h[a.cell].capacity = h[b.cell].capacity
    /\ Len(h[a.cell].elements) = Len(h[b.cell].elements)
    /\ \A k \in 1..Len(h[a.cell].elements) :
          LET e == eq(h[a.cell].elements[k], h[b.cell].elements[k], h, {})
          IN  e.kind = "Ok" /\ e.value

ComparedArrays == last.op = "eq" /\ last.arg.tag = "Array" /\ last.other.tag = "Array"

\* C10 as claimed, of the results comparisons return: values of different
\* variants are unequal, two handles to the same cell are always equal, and
\* arrays in distinct cells are equal exactly when capacities and elements
\* are.
C10_EqualityIsStructural ==
    (last.op = "eq" /\ last.out.kind = "Ok") =>
        /\ last.arg.tag # last.other.tag => ~last.out.value
        /\ (ComparedArrays /\ last.arg.cell = last.other.cell) => last.out.value
        /\ (ComparedArrays /\ last.arg.cell # last.other.cell) =>
              last.out.value = SameContents(last.arg, last.other, heap)

\* C10 amended: values of different variants are unequal; when the comparison
\* of two arrays returns, they are equal exactly when capacities and elements
\* (recursively) are; two handles to the same cell are equal exactly when the
\* cell holds no Float NaN at any depth, so a cell holding NaN is unequal to
\* itself; the comparison returns for every array that holds no array
\* containing itself.
C10_EqualityIsStructuralUpToNaN ==
    last.op = "eq" =>
        /\ last.arg.tag # last.other.tag =>
              last.out.kind = "Ok" /\ ~last.out.value
        /\ (ComparedArrays /\ last.out.kind = "Ok") =>
              last.out.value = SameContents(last.arg, last.other, heap)
        /\ (ComparedArrays /\ last.arg.cell = last.other.cell /\ last.out.kind = "Ok") =>
              last.out.value = ~ReachesNaN(last.arg, heap, {})
        /\ (ComparedArrays /\ ~ReachesCycle(last.arg, heap, {})
                           /\ ~ReachesCycle(last.other, heap, {})) =>
              last.out.kind = "Ok"

\* C10 witness: an array holding NaN has been compared with itself and found
\* unequal
C10_Witness ==
    /\ ComparedArrays
    /\ last.arg.cell = last.other.cell
    /\ ReachesNaN(last.arg, heap, {})
    /\ last.out.kind = "Ok"
    /\ ~last.out.value

====
